---- MODULE Spec2Model ----
(***************************************************************************)
(* Zantoras Evidence Replay Engine (go/cmd/replay/main.go).                *)
(*                                                                         *)
(* The model follows one invocation of zantoras-replay: an evidence export *)
(* file is prepared (a correctly chained export, possibly altered once),   *)
(* main dispatches on the command, and verifyEvidence loads, parses and    *)
(* checks the file step by step until the process exits.                   *)
(*                                                                         *)
(* Strings are sequences of characters.  A character is a record           *)
(* [lit, of]: a literal character has of = <<>>; the 64 hexadecimal        *)
(* characters that fmt.Sprintf("%x", sha256.Sum256(s)) yields are kept as  *)
(* one block [lit |-> "sha256", of |-> s] of length DigestLen.  SHA-256 is *)
(* thereby taken to be collision free, and no digest to coincide with a    *)
(* literal string of the model.                                            *)
(***************************************************************************)
EXTENDS Integers, Sequences, FiniteSets, TLC

VARIABLES
    file,            \* the evidence export file named on the command line
    tamper,          \* how the file was altered after it was produced
    args,            \* os.Args[1:] of the run (<<>> before main runs)
    pc,              \* position of the process
    export,          \* EvidenceExport filled by json.Unmarshal
    i,               \* index of the blob loop (0-based, as in the source)
    blobHashErrors,  \* counter of verifyEvidence
    chainErrors,     \* counter of verifyEvidence
    chainHashMatch,  \* result of the chain-hash comparison
    hashDetails,     \* positions printed as "Blob n hash mismatch"
    chainDetails,    \* positions printed as "Blob n chain break"
    hashErrorAt,     \* positions at which blobHashErrors was incremented
    chainErrorAt,    \* positions at which chainErrors was incremented
    banner,          \* the final banner printed, "none" while there is none
    exitCode         \* exit status of the process, NoExit while it runs

vars == <<file, tamper, args, pc, export, i, blobHashErrors, chainErrors,
          chainHashMatch, hashDetails, chainDetails, hashErrorAt, chainErrorAt,
          banner, exitCode>>

---------------------------------------------------------------------------
(* Bounds and program constants *)

MaxBlobs == 5

DigestLen == 64

PrefixLen == 32

DetailCap == 3

MaxPort == 65535

ExitOk == 0

ExitFail == 1

ExitPanic == 2

NoExit == -1

---------------------------------------------------------------------------
(* Strings *)

Lit(c) == [lit |-> c, of |-> <<>>]

Str(cs) == [k \in 1..Len(cs) |-> Lit(cs[k])]

EmptyStr == <<>>

RECURSIVE StrLen(_)
StrLen(s) ==
    IF s = <<>> THEN 0
    ELSE (IF Head(s).lit = "sha256" THEN DigestLen ELSE 1) + StrLen(Tail(s))

\* sha256.Sum256 followed by fmt.Sprintf("%x", ...)
Sha256Hex(s) == <<[lit |-> "sha256", of |-> s]>>

DigitChars == <<"0", "1", "2", "3", "4", "5", "6", "7", "8", "9">>

RECURSIVE UDec(_)
UDec(n) ==
    IF n < 10 THEN <<Lit(DigitChars[n + 1])>>
    ELSE UDec(n \div 10) \o <<Lit(DigitChars[(n % 10) + 1])>>

\* the %d verb: base 10, a minus sign for negative numbers, no padding
FmtD(n) == IF n < 0 THEN <<Lit("-")>> \o UDec(-n) ELSE UDec(n)

Bar == <<Lit("|")>>

\* a slice expression s[:PrefixLen] panics when the string is shorter
SlicePanics(s) == StrLen(s) < PrefixLen

---------------------------------------------------------------------------
(* Data model: NetFlowRecord, NetFlowBlob, EvidenceExport.  The fields the  *)
(* verifier only echoes (version, exported_at, exported_by, time_range,     *)
(* blob timestamp, deviation_score, is_anomaly) are left out.               *)

NetFlowRecord(ts, src, dst, sport, dport, proto, bytes, pkts, payload) ==
    [timestamp |-> ts, src_ip |-> src, dst_ip |-> dst, src_port |-> sport,
     dst_port |-> dport, protocol |-> proto, bytes_sent |-> bytes,
     packet_count |-> pkts, payload |-> payload]

NetFlowBlob(id, rec, prev, hash) ==
    [blob_id |-> id, record |-> rec, previous_hash |-> prev, hash |-> hash]

EvidenceExport(chain, count, first, last, blobs) ==
    [chain_hash |-> chain, blob_count |-> count, first_blob_hash |-> first,
     last_blob_hash |-> last, blobs |-> blobs]

\* the zero value json.Unmarshal leaves in a struct
ZeroExport == EvidenceExport(EmptyStr, 0, EmptyStr, EmptyStr, <<>>)

---------------------------------------------------------------------------
(* The verifier's computations *)

\* variant: destination address written before the source address
HashInputDstFirst(blob) ==
    blob.record.dst_ip \o Bar \o blob.record.src_ip \o Bar \o
    FmtD(blob.record.src_port) \o Bar \o FmtD(blob.record.dst_port) \o Bar \o
    blob.record.protocol \o Bar \o FmtD(blob.record.timestamp) \o Bar \o
    FmtD(blob.record.bytes_sent) \o Bar \o FmtD(blob.record.packet_count) \o Bar \o
    blob.previous_hash

\* variant: bytes_sent written as a constant
HashInputNoBytes(blob) ==
    blob.record.src_ip \o Bar \o blob.record.dst_ip \o Bar \o
    FmtD(blob.record.src_port) \o Bar \o FmtD(blob.record.dst_port) \o Bar \o
    blob.record.protocol \o Bar \o FmtD(blob.record.timestamp) \o Bar \o
    FmtD(0) \o Bar \o FmtD(blob.record.packet_count) \o Bar \o
    blob.previous_hash

\* fmt.Sprintf("%s|%s|%d|%d|%s|%d|%d|%d|%s", ...) of verifyEvidence
HashInput(blob) ==
    blob.record.src_ip \o Bar \o blob.record.dst_ip \o Bar \o
    FmtD(blob.record.src_port) \o Bar \o FmtD(blob.record.dst_port) \o Bar \o
    blob.record.protocol \o Bar \o FmtD(blob.record.timestamp) \o Bar \o
    FmtD(blob.record.bytes_sent) \o Bar \o FmtD(blob.record.packet_count) \o Bar \o
    blob.previous_hash

ComputedHash(blob) == Sha256Hex(HashInput(blob))

\* computedHash != blob.Hash
HashMismatch(blob) == ComputedHash(blob) # blob.hash

\* variant: the link is compared with the recomputed hash of the predecessor
ChainBreakRecomputed(blobs, k) ==
    k > 0 /\ blobs[k + 1].previous_hash # ComputedHash(blobs[k])

\* variant: the first two blobs are skipped instead of the first one
ChainBreakFromSecond(blobs, k) ==
    k > 1 /\ blobs[k + 1].previous_hash # blobs[k].hash

\* i > 0 and blob.PreviousHash != export.Blobs[i-1].Hash  (k is the 0-based index)
ChainBreak(blobs, k) ==
    k > 0 /\ blobs[k + 1].previous_hash # blobs[k].hash

\* variant: the loop stops one blob early
RECURSIVE ChainHashInputButLast(_)
ChainHashInputButLast(blobs) ==
    IF Len(blobs) <= 1 THEN EmptyStr
    ELSE Head(blobs).hash \o ChainHashInputButLast(Tail(blobs))

\* the strings.Builder loop: every stored hash in order, no separator
RECURSIVE ChainHashInput(_)
ChainHashInput(blobs) ==
    IF blobs = <<>> THEN EmptyStr
    ELSE Head(blobs).hash \o ChainHashInput(Tail(blobs))

ComputedChainHash(blobs) == Sha256Hex(ChainHashInput(blobs))

\* variant: the chain-hash result is left out of the verdict
IsVerifiedNoChainHash(blobErrors, chainErrs, chainMatch) ==
    blobErrors = 0 /\ chainErrs = 0

\* blobErrors == 0 && chainErrors == 0 && chainHashMatch
IsVerified(blobErrors, chainErrs, chainMatch) ==
    blobErrors = 0 /\ chainErrs = 0 /\ chainMatch

\* blobHashErrors <= 3 / chainErrors <= 3: the detail lines are printed
PrintsDetail(count) == count <= DetailCap

\* variant: the counter stops at the detail cap
IncrementCapped(count) == IF count < DetailCap THEN count + 1 ELSE count

\* blobHashErrors++ / chainErrors++
Increment(count) == count + 1

---------------------------------------------------------------------------
(* The evidence file.  absent names the members the JSON document lacks     *)
(* (at top level, and in each blob); malformed stands for bytes that are    *)
(* not a JSON document at all.                                              *)

FileBlob(id, rec, prev, hash) ==
    [blob_id |-> id, record |-> rec, previous_hash |-> prev, hash |-> hash,
     absent |-> {}]

EvidenceFile(doc) ==
    [readable |-> TRUE, malformed |-> FALSE, absent |-> {}, doc |-> doc]

\* json.Unmarshal returns an error: not JSON, or a number that does not fit
\* the uint16 of SrcPort / DstPort
UnmarshalFails(f) ==
    \/ f.malformed
    \/ /\ "blobs" \notin f.absent
       /\ \E k \in 1..Len(f.doc.blobs) :
              \/ f.doc.blobs[k].record.src_port \notin 0..MaxPort
              \/ f.doc.blobs[k].record.dst_port \notin 0..MaxPort

\* a member the document lacks keeps the zero value of its Go type
UnmarshalBlob(b) ==
    NetFlowBlob(b.blob_id, b.record,
                IF "previous_hash" \in b.absent THEN EmptyStr ELSE b.previous_hash,
                IF "hash" \in b.absent THEN EmptyStr ELSE b.hash)

Unmarshal(f) ==
    EvidenceExport(
        IF "chain_hash" \in f.absent THEN EmptyStr ELSE f.doc.chain_hash,
        f.doc.blob_count, f.doc.first_blob_hash, f.doc.last_blob_hash,
        IF "blobs" \in f.absent THEN <<>>
        ELSE [k \in 1..Len(f.doc.blobs) |-> UnmarshalBlob(f.doc.blobs[k])])

---------------------------------------------------------------------------
(* The producer of exports (the evidence engine, outside this repository), *)
(* as section 4.1 of the specification prescribes it.                       *)

CanonicalHashInput(rec, prev) ==
    rec.src_ip \o Bar \o rec.dst_ip \o Bar \o FmtD(rec.src_port) \o Bar \o
    FmtD(rec.dst_port) \o Bar \o rec.protocol \o Bar \o FmtD(rec.timestamp) \o Bar \o
    FmtD(rec.bytes_sent) \o Bar \o FmtD(rec.packet_count) \o Bar \o prev

RECURSIVE ProducedBlobs(_, _, _)
ProducedBlobs(recs, prev, k) ==
    IF recs = <<>> THEN <<>>
    ELSE LET h == Sha256Hex(CanonicalHashInput(Head(recs), prev))
         IN  <<FileBlob(FmtD(k), Head(recs), prev, h)>>
                 \o ProducedBlobs(Tail(recs), h, k + 1)

RECURSIVE ConcatHashes(_)
ConcatHashes(blobs) ==
    IF blobs = <<>> THEN EmptyStr ELSE Head(blobs).hash \o ConcatHashes(Tail(blobs))

ProducedExport(recs, genesis) ==
    LET blobs == ProducedBlobs(recs, genesis, 0)
        n == Len(blobs)
    IN  EvidenceFile(EvidenceExport(
            Sha256Hex(ConcatHashes(blobs)), n,
            IF n = 0 THEN EmptyStr ELSE blobs[1].hash,
            IF n = 0 THEN EmptyStr ELSE blobs[n].hash,
            blobs))

(* Input values *)

LongLit == [k \in 1..DigestLen |-> Lit("0")]

ShortLit == Str(<<"x">>)

OtherDigest == Sha256Hex(ShortLit)

GenesisValues == {EmptyStr, LongLit}

BaseRecords ==
    { NetFlowRecord(10, Str(<<"a">>), Str(<<"b">>), 80, 443, Str(<<"t">>), 7, 1, EmptyStr),
      NetFlowRecord(-3, Str(<<"a", "|", "b">>), Str(<<"c">>), 0, MaxPort, EmptyStr,
                    0, 12, Str(<<"p">>)) }

RecordSeqs ==
    { [k \in 1..n |-> [base EXCEPT !.timestamp = @ + k]] :
          base \in BaseRecords, n \in 0..MaxBlobs }

HashInputFields ==
    {"src_ip", "dst_ip", "src_port", "dst_port", "protocol", "timestamp",
     "bytes_sent", "packet_count"}

FieldValues(f) ==
    CASE f \in {"src_ip", "dst_ip", "protocol"} ->
             {EmptyStr, Str(<<"a">>), Str(<<"a", "|", "b">>)}
      [] f \in {"src_port", "dst_port"} -> {0, 80, MaxPort}
      [] OTHER -> {-3, 0, 12}

StringValues == {EmptyStr, ShortLit, LongLit, OtherDigest}

Positions(f) == 0..(Len(f.doc.blobs) - 1)

Tamper(kind, pos) == [kind |-> kind, pos |-> pos]

---------------------------------------------------------------------------
(* Initial state: a correctly produced export, nothing run yet *)

Init ==
    /\ \E recs \in RecordSeqs, genesis \in GenesisValues :
           file = ProducedExport(recs, genesis)
    /\ tamper = Tamper("none", -1)
    /\ args = <<>>
    /\ pc = "input"
    /\ export = ZeroExport
    /\ i = 0
    /\ blobHashErrors = 0
    /\ chainErrors = 0
    /\ chainHashMatch = FALSE
    /\ hashDetails = {}
    /\ chainDetails = {}
    /\ hashErrorAt = {}
    /\ chainErrorAt = {}
    /\ banner = "none"
    /\ exitCode = NoExit

run == <<args, pc, export, i, blobHashErrors, chainErrors, chainHashMatch,
         hashDetails, chainDetails, hashErrorAt, chainErrorAt, banner, exitCode>>

SetBlobs(f, blobs) == [f EXCEPT !.doc.blobs = blobs]

Untouched == pc = "input" /\ tamper.kind = "none"

---------------------------------------------------------------------------
(* Alterations of the file between its production and the run *)

\* one hash-input field of the record at position p gets another value
MutateField ==
    /\ Untouched
    /\ \E p \in Positions(file), f \in HashInputFields :
         \E v \in FieldValues(f) :
           /\ v # file.doc.blobs[p + 1].record[f]
           /\ file' = SetBlobs(file, [file.doc.blobs EXCEPT ![p + 1].record[f] = v])
           /\ tamper' = Tamper("field", p)
    /\ UNCHANGED run

\* previous_hash at position p gets another value, hash is left alone
MutatePreviousHash ==
    /\ Untouched
    /\ \E p \in Positions(file) :
         \E v \in StringValues \cup {file.doc.blobs[p + 1].hash} :
           /\ v # file.doc.blobs[p + 1].previous_hash
           /\ file' = SetBlobs(file, [file.doc.blobs EXCEPT ![p + 1].previous_hash = v])
           /\ tamper' = Tamper("previous_hash", p)
    /\ UNCHANGED run

\* a blob is appended, chain_hash is left alone
AppendBlob ==
    /\ Untouched
    /\ \E base \in BaseRecords, link \in BOOLEAN :
         LET n == Len(file.doc.blobs)
             rec == [base EXCEPT !.timestamp = @ + n + 1]
             prev == IF ~link THEN ShortLit
                     ELSE IF n > 0 THEN file.doc.blobs[n].hash ELSE EmptyStr
         IN  \E h \in StringValues \cup {Sha256Hex(CanonicalHashInput(rec, prev))} :
               /\ file' = SetBlobs(file, Append(file.doc.blobs,
                                                FileBlob(FmtD(n), rec, prev, h)))
               /\ tamper' = Tamper("append", n)
    /\ UNCHANGED run

\* the blobs at positions p and p+1 change places
SwapAdjacent ==
    /\ Untouched
    /\ \E p \in Positions(file) :
         /\ p + 1 \in Positions(file)
         /\ file' = SetBlobs(file, [file.doc.blobs EXCEPT
                                       ![p + 1] = file.doc.blobs[p + 2],
                                       ![p + 2] = file.doc.blobs[p + 1]])
         /\ tamper' = Tamper("swap", p)
    /\ UNCHANGED run

\* the stored hash, the stored previous_hash or both are overwritten at every
\* position in ps; the new value is long, short, or long at the first
\* DetailCap positions of ps and short at the later ones
RewriteHashes ==
    /\ Untouched
    /\ \E ps \in SUBSET Positions(file) :
         \E members \in {{"hash"}, {"previous_hash"}, {"hash", "previous_hash"}},
            style \in {"long", "short", "mixed"} :
           LET rank(p) == Cardinality({q \in ps : q < p})
               v(p) == IF style = "long" \/ (style = "mixed" /\ rank(p) < DetailCap)
                       THEN LongLit ELSE ShortLit
           IN  /\ ps # {}
               /\ file' = SetBlobs(file,
                      [k \in 1..Len(file.doc.blobs) |->
                          IF (k - 1) \notin ps THEN file.doc.blobs[k]
                          ELSE [file.doc.blobs[k] EXCEPT
                                  !.hash = IF "hash" \in members
                                           THEN v(k - 1) ELSE @,
                                  !.previous_hash = IF "previous_hash" \in members
                                                    THEN v(k - 1) ELSE @]])
               /\ tamper' = Tamper("rewrite", -1)
    /\ UNCHANGED run

\* chain_hash gets another value
SetChainHash ==
    /\ Untouched
    /\ \E v \in StringValues :
           /\ file' = [file EXCEPT !.doc.chain_hash = v]
           /\ tamper' = Tamper("chain_hash", -1)
    /\ UNCHANGED run

\* the members no check reads get other values
SetAdvisory ==
    /\ Untouched
    /\ \E v \in {ShortLit, OtherDigest} :
         file' = [file EXCEPT
                     !.doc.blob_count = @ + 1,
                     !.doc.first_blob_hash = v,
                     !.doc.last_blob_hash = v,
                     !.doc.blobs = [k \in 1..Len(@) |->
                                       [@[k] EXCEPT !.blob_id = v,
                                                    !.record.payload = v]]]
    /\ tamper' = Tamper("advisory", -1)
    /\ UNCHANGED run

\* a required member is removed from the document
DropMember ==
    /\ Untouched
    /\ \/ /\ \E m \in {"chain_hash", "blobs"} : file' = [file EXCEPT !.absent = {m}]
          /\ tamper' = Tamper("drop", -1)
       \/ \E p \in Positions(file), m \in {"hash", "previous_hash"} :
            /\ file' = SetBlobs(file, [file.doc.blobs EXCEPT ![p + 1].absent = {m}])
            /\ tamper' = Tamper("drop", p)
    /\ UNCHANGED run

\* the bytes are no JSON document, or a port does not fit 16 bits
Corrupt ==
    /\ Untouched
    /\ \/ /\ file' = [file EXCEPT !.malformed = TRUE]
          /\ tamper' = Tamper("malformed", -1)
       \/ \E p \in Positions(file) :
            /\ file' = SetBlobs(file, [file.doc.blobs EXCEPT
                                          ![p + 1].record.src_port = MaxPort + 1])
            /\ tamper' = Tamper("malformed", p)
    /\ UNCHANGED run

\* the file cannot be read
Unreadable ==
    /\ Untouched
    /\ file' = [file EXCEPT !.readable = FALSE]
    /\ tamper' = Tamper("unreadable", -1)
    /\ UNCHANGED run

---------------------------------------------------------------------------
(* The run *)

Argvs ==
    { <<>>, <<"verify">>, <<"verify", "f">>, <<"import", "f">>,
      <<"version">>, <<"help">>, <<"bogus">> }

Exit(code) == pc' = "exited" /\ exitCode' = code

\* the process dies of a run-time panic (slice bounds out of range)
Panic == Exit(ExitPanic)

\* main: dispatch on os.Args (args is os.Args[1:])
Main ==
    /\ pc = "input"
    /\ \E argv \in Argvs :
         /\ args' = argv
         /\ IF argv = <<>> THEN Exit(ExitFail)
            ELSE IF argv[1] \in {"verify", "import"}
                 THEN IF Len(argv) < 2 THEN Exit(ExitFail)
                      ELSE pc' = "load" /\ exitCode' = exitCode
            ELSE IF argv[1] \in {"version", "help"} THEN Exit(ExitOk)
            ELSE Exit(ExitFail)
    /\ UNCHANGED <<file, tamper, export, i, blobHashErrors, chainErrors,
                   chainHashMatch, hashDetails, chainDetails, hashErrorAt,
                   chainErrorAt, banner>>

\* printVerificationFailed followed by os.Exit(1)
VerificationFailed == banner' = "UNABLE" /\ Exit(ExitFail)

\* verifyEvidence [1/4]: os.ReadFile
LoadFile ==
    /\ pc = "load"
    /\ IF ~file.readable THEN VerificationFailed
       ELSE pc' = "parse" /\ UNCHANGED <<banner, exitCode>>
    /\ UNCHANGED <<file, tamper, args, export, i, blobHashErrors, chainErrors,
                   chainHashMatch, hashDetails, chainDetails, hashErrorAt,
                   chainErrorAt>>

\* verifyEvidence [2/4]: json.Unmarshal, then the counters are set to 0
ParseExport ==
    /\ pc = "parse"
    /\ IF UnmarshalFails(file)
       THEN VerificationFailed /\ UNCHANGED export
       ELSE /\ export' = Unmarshal(file)
            /\ pc' = "loop"
            /\ UNCHANGED <<banner, exitCode>>
    /\ i' = 0 /\ blobHashErrors' = 0 /\ chainErrors' = 0
    /\ UNCHANGED <<file, tamper, args, chainHashMatch, hashDetails,
                   chainDetails, hashErrorAt, chainErrorAt>>

\* verifyEvidence [3/4]: one iteration of the loop over export.Blobs
VerifyBlob ==
    /\ pc = "loop"
    /\ i < Len(export.blobs)
    /\ LET blob == export.blobs[i + 1]
           mismatch == HashMismatch(blob)
           nHash == IF mismatch THEN Increment(blobHashErrors) ELSE blobHashErrors
           hashDetail == mismatch /\ PrintsDetail(nHash)
           hashPanic == hashDetail /\ SlicePanics(blob.hash)
           break == ~hashPanic /\ ChainBreak(export.blobs, i)
           nChain == IF break THEN Increment(chainErrors) ELSE chainErrors
           chainDetail == break /\ PrintsDetail(nChain)
           chainPanic == chainDetail /\ (\/ SlicePanics(export.blobs[i].hash)
                                         \/ SlicePanics(blob.previous_hash))
       IN  /\ blobHashErrors' = nHash
           /\ hashErrorAt' = IF mismatch THEN hashErrorAt \cup {i} ELSE hashErrorAt
           /\ hashDetails' = IF hashDetail THEN hashDetails \cup {i} ELSE hashDetails
           /\ chainErrors' = nChain
           /\ chainErrorAt' = IF break THEN chainErrorAt \cup {i} ELSE chainErrorAt
           /\ chainDetails' = IF chainDetail THEN chainDetails \cup {i} ELSE chainDetails
           /\ IF hashPanic \/ chainPanic
              THEN Panic /\ i' = i
              ELSE i' = i + 1 /\ UNCHANGED <<pc, exitCode>>
    /\ UNCHANGED <<file, tamper, args, export, chainHashMatch, banner>>

\* verifyEvidence, the summary lines and [4/4]: the chain hash
VerifyChainHash ==
    /\ pc = "loop"
    /\ i = Len(export.blobs)
    /\ chainHashMatch' = (ComputedChainHash(export.blobs) = export.chain_hash)
    /\ IF SlicePanics(export.chain_hash) THEN Panic
       ELSE pc' = "result" /\ UNCHANGED exitCode
    /\ UNCHANGED <<file, tamper, args, export, i, blobHashErrors, chainErrors,
                   hashDetails, chainDetails, hashErrorAt, chainErrorAt, banner>>

\* printVerificationResult; on success main returns and the process exits 0
PrintVerificationResult ==
    /\ pc = "result"
    /\ IF IsVerified(blobHashErrors, chainErrors, chainHashMatch)
       THEN banner' = "VERIFIED" /\ Exit(ExitOk)
       ELSE banner' = "TAMPERED" /\ Exit(ExitFail)
    /\ UNCHANGED <<file, tamper, args, export, i, blobHashErrors, chainErrors,
                   chainHashMatch, hashDetails, chainDetails, hashErrorAt,
                   chainErrorAt>>

Next ==
    \/ MutateField
    \/ MutatePreviousHash
    \/ AppendBlob
    \/ SwapAdjacent
    \/ RewriteHashes
    \/ SetChainHash
    \/ SetAdvisory
    \/ DropMember
    \/ Corrupt
    \/ Unreadable
    \/ Main
    \/ LoadFile
    \/ ParseExport
    \/ VerifyBlob
    \/ VerifyChainHash
    \/ PrintVerificationResult

Spec == Init /\ [][Next]_vars

---------------------------------------------------------------------------
(* Vocabulary of the properties *)

Verdicts == {"VERIFIED", "TAMPERED"}

\* the run is verifyEvidence(os.Args[2])
Verifying == Len(args) = 2

\* json.Unmarshal has succeeded
Parsed ==
    /\ Verifying
    /\ \/ pc \in {"loop", "result"}
       \/ pc = "exited" /\ (banner \in Verdicts \/ exitCode = ExitPanic)

\* the process has ended
Ended == Verifying /\ pc = "exited"

\* the loop over export.Blobs has run over the whole sequence
LoopDone == Parsed /\ i = Len(export.blobs)

\* the chain-hash comparison has been made
ChainHashCompared == LoopDone /\ (pc # "loop")

\* what section 4.1 asks of the three checks, on the checked members alone
CheckedMembers(e) ==
    [chain_hash |-> e.chain_hash,
     blobs |-> [k \in 1..Len(e.blobs) |->
                  [record |-> [f \in HashInputFields |-> e.blobs[k].record[f]],
                   previous_hash |-> e.blobs[k].previous_hash,
                   hash |-> e.blobs[k].hash]]]

ExpectedMismatchAt(blobs) ==
    { k \in 0..(Len(blobs) - 1) :
        Sha256Hex(CanonicalHashInput(blobs[k + 1].record, blobs[k + 1].previous_hash))
            # blobs[k + 1].hash }

ExpectedBreakAt(blobs) ==
    { k \in 1..(Len(blobs) - 1) : blobs[k + 1].previous_hash # blobs[k].hash }

ExpectedChainMatch(c) == Sha256Hex(ConcatHashes(c.blobs)) = c.chain_hash

ExpectedVerified(c) ==
    /\ ExpectedMismatchAt(c.blobs) = {}
    /\ ExpectedBreakAt(c.blobs) = {}
    /\ ExpectedChainMatch(c)

---------------------------------------------------------------------------
(* Properties *)

C2_RoundTrip ==
    (tamper.kind = "none" /\ Verifying) =>
        /\ blobHashErrors = 0 /\ chainErrors = 0
        /\ exitCode # ExitPanic
        /\ pc = "exited" => banner = "VERIFIED"
        /\ ChainHashCompared => chainHashMatch

C2_Witness ==
    /\ tamper.kind = "none"
    /\ banner = "VERIFIED"
    /\ Len(export.blobs) >= 2

\* C3: after one hash-input field of the blob at position p was changed in a
\* valid chain, the run ends having counted exactly one hash mismatch, at p.
C3_FieldMutationOneMismatch ==
    (tamper.kind = "field" /\ Verifying) =>
        /\ hashErrorAt \subseteq {tamper.pos}
        /\ pc = "exited" =>
              /\ banner = "TAMPERED"
              /\ hashErrorAt = {tamper.pos}
              /\ hashDetails = {tamper.pos}
              /\ blobHashErrors = 1

C3_Witness ==
    /\ tamper.kind = "field"
    /\ Ended
    /\ Len(export.blobs) >= 3
    /\ tamper.pos = 1
    /\ hashErrorAt = {1}

\* C4 as stated: for each position p, changing previous_hash at p makes the
\* linkage check count exactly one break, at p, and the blob-hash check a
\* mismatch at p.
C4_AsStated ==
    (tamper.kind = "previous_hash" /\ Ended) =>
        chainErrorAt = {tamper.pos} /\ tamper.pos \in hashErrorAt

\* C4 amended: for each position p > 0 the linkage check counts exactly one
\* break, at p; for p = 0 it counts none (position 0 has no predecessor); in
\* both cases the blob-hash check counts exactly one mismatch, at p.  The
\* break is counted and its first detail line printed also when the new
\* value is shorter than 32 characters and the run then dies printing it.
C4_PreviousHashMutation ==
    (tamper.kind = "previous_hash" /\ Ended) =>
        /\ hashErrorAt = {tamper.pos}
        /\ blobHashErrors = 1
        /\ chainErrorAt = (IF tamper.pos > 0 THEN {tamper.pos} ELSE {})
        /\ chainErrors = (IF tamper.pos > 0 THEN 1 ELSE 0)
        /\ chainDetails = chainErrorAt

C4_Witness ==
    /\ tamper.kind = "previous_hash"
    /\ tamper.pos = 1
    /\ Len(export.blobs) >= 3
    /\ banner = "TAMPERED"
    /\ chainErrorAt = {1}
    /\ hashErrorAt = {1}

C6_SwapBreaksLinkage ==
    (tamper.kind = "swap" /\ Ended) =>
        /\ chainErrors >= 1
        /\ chainErrorAt # {}
        /\ chainDetails # {}

C6_Witness ==
    /\ tamper.kind = "swap"
    /\ tamper.pos = 0
    /\ Ended
    /\ chainErrors >= 1

\* C7: a verify / import run exits 0 exactly when the verdict is VERIFIED and
\* exits 1 in every other case.
C7_ExitStatus ==
    Ended =>
        /\ (exitCode = ExitOk) <=> (banner = "VERIFIED")
        /\ banner # "VERIFIED" => exitCode = ExitFail

\* C8: a document lacking chain_hash, blobs, or a blob's hash or
\* previous_hash is rejected by the parse step: no check runs and the run
\* ends with the "unable to process" banner.
C8_MissingMemberRejected ==
    (tamper.kind = "drop" /\ Verifying) =>
        /\ pc \in {"load", "parse", "exited"}
        /\ pc = "exited" => banner = "UNABLE"

\* C9: once the export is parsed the run never aborts: it ends with a
\* VERIFIED or TAMPERED verdict after all three checks ran over the whole
\* sequence.
C9_NeverAborts ==
    Parsed =>
        /\ exitCode # ExitPanic
        /\ pc = "exited" => (banner \in Verdicts /\ i = Len(export.blobs))

====
